---- MODULE Spec2Model ----
(***************************************************************************)
(* Model of src/src/LogManager.cpp: the LogManager singleton, its message  *)
(* queue, the worker thread running LogManager::Process, the producers     *)
(* calling QueueLogMessage and the loggers calling RegisterLogger and      *)
(* UnregisterLogger.  The files under logs/ outlive a LogManager instance. *)
(***************************************************************************)
EXTENDS Integers, Sequences, FiniteSets, TLC

\* ---------------------------------------------------------------- bounds
MaxEntries == 2
NumProducers == 2
NumLoggers == 2
MaxClock == 2

Producers == 1..NumProducers
Loggers == 1..NumLoggers
Ids == 1..MaxEntries

\* ------------------------------------------------------------ input sets
\* module names are strings, kept as sequences of characters so that
\* find('/') and substr can be computed
ModAB == <<"a", "/", "b">>
ModAC == <<"a", "/", "c">>
Modules == {ModAB, ModAC}

LogLevels == {"LogLevel::DEBUG", "LogLevel::INFO", "LogLevel::WARNING",
              "LogLevel::ERROR", "LogLevel::FATAL", "LogLevel::VERBOSE"}

\* the three aggregate streams of LogManager and the files under logs/
NoFile == "nullptr"
Streams == {"m_WarningLog", "m_ErrorLog", "m_FatalLog"}
AggFiles == {"logs/warnings.log", "logs/errors.log", "logs/fatals.log"}

\* call info frames: a file and a line
FrameA == [file |-> "a.pwn", line |-> 7]
FrameB == [file |-> "b.inc", line |-> 120]
CallChains == {<<>>, <<FrameA>>, <<FrameA, FrameB>>, <<FrameB, FrameA>>,
               <<FrameA, FrameA>>}

NoMsg == [id |-> 0, log_module |-> <<>>, loglevel |-> "LogLevel::DEBUG",
          text |-> <<>>, call_info |-> <<>>, timestamp |-> 0]
NoString == <<>>

\* console configurations the LogConfigReader may hold: PrintToConsole for
\* one module and for one level; with both modules and all levels submitted,
\* every combination of the two flags occurs
LoggerCfgChoices == {{ModAB}}
LevelCfgChoices == {{"LogLevel::ERROR"}}

\* the logtimeformat values: not set (the default "{:%x %X}" is kept), a
\* valid strftime pattern, a pattern that leaves "{:" + pattern + "}" a
\* malformed fmt format string (a brace in it), and a pattern with a
\* conversion strftime does not know
TimeFormats == {"unset", "valid", "malformed", "unknown_conversion"}

VARIABLES
  instance,        \* the CSingleton instance of LogManager: "none" | "alive",
                   \* or "aborted" once LogManager() did not return
  m_ThreadRunning, \* the stop flag (TRUE while no shutdown was requested)
  m_LogMsgQueue,   \* the message queue, front first
  mtx,             \* owner of m_QueueMtx: "free" | "worker"
  m_Loggers,       \* keys of the m_Loggers map
  streamOpen,      \* per aggregate stream: is_open()
  streamGood,      \* per aggregate stream: open and in a good state
  wpc,             \* position of the worker thread in Process
  msg,             \* Process: the popped message
  hashed_modules,  \* Process: modules whose folders were created
  timestamp,       \* Process: the formatted time of the popped message
  log_string,      \* Process: the text of the popped message with call info
  clock,           \* the system clock, in seconds
  dpc,             \* position of the thread running ~LogManager
  lpc,             \* per logger: "none" | "registered" | "unreg_check"
  lname,           \* per logger: its module name
  is_last,         \* per logger: UnregisterLogger's local is_last
  ppc,             \* per producer: "idle" | "notify"
  srcFile,         \* content of logs/<module>.log
  aggFile,         \* content of the three aggregate files
  console,         \* lines printed on the console
  createdFolders,  \* CreateFolder calls of the current instance, in order,
                   \* each with the id of the message processed (0: none)
  loggerCfg,       \* modules whose LogConfig has PrintToConsole
  levelCfg,        \* levels whose LogLevelConfig has PrintToConsole
  logtimeformat,   \* the logtimeformat variable of the server configuration
  EnableColors,    \* GetGlobalConfig().EnableColors
  win32,           \* the build: is WIN32 defined?
  enabled,         \* the static enabled of EnsureTerminalColorSupport
  negotiations,    \* history: the number of console mode negotiations
  sent,            \* history: the messages in the order they were pushed
  deq,             \* history: ids in the order the worker popped them
  srcFailed,       \* history: ids whose per-module write failed
  aggFailed,       \* history: ids whose aggregate write failed
  pendingAtStop    \* history: ids not yet written when the stop flag was set

vars == <<instance, m_ThreadRunning, m_LogMsgQueue, mtx, m_Loggers, streamOpen,
          streamGood, wpc, msg, hashed_modules, dpc, lpc, lname, is_last, ppc,
          srcFile, aggFile, console, createdFolders, loggerCfg, levelCfg,
          logtimeformat, EnableColors, win32, enabled, negotiations,
          timestamp, log_string, clock, sent, deq, srcFailed, aggFailed,
          pendingAtStop>>

\* ------------------------------------------------------- pure functions
GetLogLevelAsString(level) ==
  CASE level = "LogLevel::DEBUG" -> "DEBUG"
    [] level = "LogLevel::INFO" -> "INFO"
    [] level = "LogLevel::WARNING" -> "WARNING"
    [] level = "LogLevel::ERROR" -> "ERROR"
    [] level = "LogLevel::FATAL" -> "FATAL"
    [] level = "LogLevel::VERBOSE" -> "VERBOSE"
    [] OTHER -> "<unknown>"

npos == -1

\* std::string::find(c, pos): first 0-based index >= pos holding c
Find(s, c, pos) ==
  LET hits == {i \in pos..(Len(s) - 1) : s[i + 1] = c}
  IN IF hits = {} THEN npos
     ELSE CHOOSE i \in hits : \A j \in hits : i <= j

\* std::string::substr(0, n)
Substr0(s, n) == SubSeq(s, 1, n)

\* the folder loop of Process: the CreateFolder arguments, in call order
RECURSIVE FolderLoop(_, _, _)
FolderLoop(modulename, pos, calls) ==
  LET p == Find(modulename, "/", pos)
  IN IF p = npos THEN calls
     ELSE FolderLoop(modulename, p + 1,
                     Append(calls, <<"logs/">> \o Substr0(modulename, p)))

\* a call of CreateFolder, made while message id is processed
CreateFolder(id, foldername) == [by |-> id, foldername |-> foldername]

\* (mutant) the module name not remembered
HashedNoInsert(hashed, modulename) == hashed

\* hashed_modules.insert(modulename)
HashedInsert(hashed, modulename) == hashed \cup {modulename}

\* the file each aggregate stream is opened on by LogManager()
StreamPath(stream) ==
  CASE stream = "m_WarningLog" -> "logs/warnings.log"
    [] stream = "m_ErrorLog" -> "logs/errors.log"
    [] stream = "m_FatalLog" -> "logs/fatals.log"

\* (mutant) ERROR messages sent to the stream of the warnings
LogLevelFileMixed(level) ==
  IF level = "LogLevel::WARNING" THEN "m_WarningLog"
  ELSE IF level = "LogLevel::ERROR" THEN "m_WarningLog"
  ELSE IF level = "LogLevel::FATAL" THEN "m_FatalLog"
  ELSE NoFile

\* the per-log-level stream chosen by the if / else-if chain of Process
LogLevelFile(level) ==
  IF level = "LogLevel::WARNING" THEN "m_WarningLog"
  ELSE IF level = "LogLevel::ERROR" THEN "m_ErrorLog"
  ELSE IF level = "LogLevel::FATAL" THEN "m_FatalLog"
  ELSE NoFile

\* LogConfigReader lookups used by Process
GetLoggerConfig(modulename) == modulename \in loggerCfg
GetLogLevelConfig(level) == level \in levelCfg

\* the console condition of Process
PrintsToConsoleBoth(log_config, level_config) == log_config /\ level_config
PrintsToConsole(log_config, level_config) == log_config \/ level_config

\* std::queue operations
QueuePushFront(q, m) == <<m>> \o q
QueuePush(q, m) == Append(q, m)
QueueFront(q) == Head(q)
QueueNoPop(q) == q
QueuePop(q) == Tail(q)

\* std::condition_variable::notify_one seen from the worker
NotifyOne(w) == IF w = "waiting" THEN "woken" ELSE w

\* "{:d}": the decimal digits of a number
RECURSIVE FormatInt(_)
FormatInt(n) ==
  LET digit == SubSeq(<<"0", "1", "2", "3", "4", "5", "6", "7", "8", "9">>,
                      (n % 10) + 1, (n % 10) + 1)
  IN IF n < 10 THEN digit ELSE FormatInt(n \div 10) \o digit

\* (mutant) the separator written before every frame
RECURSIVE CallInfoLoopNoFirst(_, _, _, _)
CallInfoLoopNoFirst(call_info, k, first, log_string_buf) ==
  IF k > Len(call_info) THEN log_string_buf
  ELSE CallInfoLoopNoFirst(call_info, k + 1, FALSE,
         log_string_buf \o <<" -> ">>
         \o <<call_info[k].file, ":">> \o FormatInt(call_info[k].line))

\* WriteCallInfoString: the loop over msg->call_info with its flag first
RECURSIVE CallInfoLoop(_, _, _, _)
CallInfoLoop(call_info, k, first, log_string_buf) ==
  IF k > Len(call_info) THEN log_string_buf
  ELSE CallInfoLoop(call_info, k + 1, FALSE,
         log_string_buf \o (IF ~first THEN <<" -> ">> ELSE <<>>)
         \o <<call_info[k].file, ":">> \o FormatInt(call_info[k].line))

\* WriteCallInfoString: the buffer after the call
WriteCallInfoString(m, log_string_buf) ==
  IF m.call_info # <<>>
  THEN CallInfoLoop(m.call_info, 1, TRUE, log_string_buf \o <<" (">>)
         \o <<")">>
  ELSE log_string_buf

\* m_DateTimeFormat as set by LogManager()
DateTimeFormat == IF logtimeformat = "unset" THEN <<"{:", "%x %X", "}">>
                  ELSE <<"{:", logtimeformat, "}">>

\* fmt::format(m_DateTimeFormat, fmt::localtime(t)): the text strftime
\* gives for the pattern and the time
FormatTime(format, t) == format \o FormatInt(t)

\* the lines written for a message, from the locals timestamp and
\* log_string of Process
ModuleLine(m) == [id |-> m.id, timestamp |-> timestamp,
                  level |-> GetLogLevelAsString(m.loglevel),
                  text |-> log_string]
LevelLine(m) == [id |-> m.id, timestamp |-> timestamp,
                 module |-> m.log_module, text |-> log_string]
ConsoleLine(m) == [id |-> m.id, timestamp |-> timestamp,
                   module |-> m.log_module,
                   level |-> GetLogLevelAsString(m.loglevel),
                   text |-> log_string]

\* the colour of the level on the console
GetLogLevelColor(level) ==
  CASE level = "LogLevel::DEBUG" -> "green"
    [] level = "LogLevel::INFO" -> "royal_blue"
    [] level = "LogLevel::WARNING" -> "orange"
    [] level = "LogLevel::ERROR" -> "red"
    [] level = "LogLevel::FATAL" -> "red"
    [] level = "LogLevel::VERBOSE" -> "white_smoke"
    [] OTHER -> "white"

\* the console line printed piecewise with colours; FATAL is printed white
\* on its colour
ColoredLine(m) ==
  [id |-> m.id, timestamp |-> timestamp, module |-> m.log_module,
   level |-> GetLogLevelAsString(m.loglevel), text |-> log_string,
   color |-> IF m.loglevel = "LogLevel::FATAL"
             THEN <<"white", GetLogLevelColor(m.loglevel)>>
             ELSE <<GetLogLevelColor(m.loglevel)>>]

\* EnsureTerminalColorSupport: is the console mode queried and set by this
\* call?  Only a WIN32 build has a negotiation, skipped once enabled is set
Negotiates(isEnabled, isWin32) == ~isEnabled /\ isWin32

\* EnsureTerminalColorSupport: the static enabled after the call; it is set
\* when the end of the function is reached, which a failed GetStdHandle,
\* GetConsoleMode or SetConsoleMode prevents
EnsureTerminalColorSupport(isEnabled, isWin32, negotiated) ==
  IF isEnabled THEN TRUE
  ELSE IF isWin32 THEN negotiated
  ELSE TRUE

IdsOf(lines) == {lines[i].id : i \in 1..Len(lines)}

\* ------------------------------------------------------------------ Init
\* the state right after the first LogManager() on a logs folder without
\* files; each aggregate stream may have failed to open
InitWith(streams, loggerCfgs, levelCfgs, colors, builds) ==
  /\ instance = "alive"
  /\ m_ThreadRunning = TRUE
  /\ m_LogMsgQueue = <<>>
  /\ mtx = "free"
  /\ m_Loggers = {}
  /\ streamGood \in streams
  /\ streamOpen = streamGood
  /\ wpc = "start"
  /\ msg = NoMsg
  /\ hashed_modules = {}
  /\ timestamp = NoString
  /\ log_string = NoString
  /\ clock = 0
  /\ dpc = "idle"
  /\ lpc = [l \in Loggers |-> "none"]
  /\ lname = [l \in Loggers |-> ModAB]
  /\ is_last = [l \in Loggers |-> FALSE]
  /\ ppc = [p \in Producers |-> "idle"]
  /\ srcFile = [m \in Modules |-> <<>>]
  /\ aggFile = [f \in AggFiles |-> <<>>]
  /\ console = <<>>
  /\ createdFolders = <<CreateFolder(0, <<"logs">>)>>
  /\ loggerCfg \in loggerCfgs
  /\ levelCfg \in levelCfgs
  /\ logtimeformat = "unset"
  /\ EnableColors \in colors
  /\ win32 \in builds
  /\ enabled = FALSE
  /\ negotiations = 0
  /\ sent = <<>>
  /\ deq = <<>>
  /\ srcFailed = {}
  /\ aggFailed = {}
  /\ pendingAtStop = {}

\* the same, with plain console output
InitOf(streams, loggerCfgs, levelCfgs) ==
  InitWith(streams, loggerCfgs, levelCfgs, {FALSE}, {FALSE})

\* variable groups
queueVars == <<m_ThreadRunning, m_LogMsgQueue>>
workerVars == <<wpc, msg, hashed_modules>>
loggerVars == <<m_Loggers, lpc, lname, is_last>>
fileVars == <<srcFile, aggFile, console, createdFolders, streamOpen,
              streamGood>>
cfgVars == <<loggerCfg, levelCfg, logtimeformat, EnableColors, win32>>
termVars == <<enabled, negotiations>>
fmtVars == <<clock, timestamp, log_string>>
histVars == <<sent, deq, srcFailed, aggFailed, pendingAtStop>>

\* -------------------------------------------------- LogManager lifecycle
\* LogManager(): can the dry run fmt::format(m_DateTimeFormat, ...) return?
\* It is made only when logtimeformat is set.  fmt throws format_error on a
\* malformed format string; it hands the pattern to strftime unchecked, and
\* on a conversion strftime does not know the call "will assert if invalid
\* and on Windows" and is undefined elsewhere, where it returns as a rule
DryRun(format) ==
  CASE format = "unset" -> {TRUE}
    [] format = "valid" -> {TRUE}
    [] format = "malformed" -> {FALSE}
    [] format = "unknown_conversion" -> {TRUE, FALSE}

\* LogManager::LogManager(), run by CSingleton::Get() when there is no
\* instance: the dry run of the configured time format, which ends the
\* initialization when it does not return; then CreateFolder("logs"), the
\* aggregate streams opened (mode out: truncating) and the worker thread
\* started
Construct(opened) ==
  /\ instance = "none"
  /\ \E passed \in DryRun(logtimeformat) :
       IF passed
       THEN /\ streamOpen' = opened
            /\ streamGood' = opened
            /\ aggFile' = [f \in AggFiles |->
                 IF \E st \in Streams : StreamPath(st) = f /\ opened[st]
                 THEN <<>> ELSE aggFile[f]]
            /\ pendingAtStop' = {}
            /\ instance' = "alive"
            /\ m_ThreadRunning' = TRUE
            /\ m_LogMsgQueue' = <<>>
            /\ mtx' = "free"
            /\ m_Loggers' = {}
            /\ createdFolders' = <<CreateFolder(0, <<"logs">>)>>
            /\ wpc' = "start"
            /\ msg' = NoMsg
            /\ hashed_modules' = {}
            /\ UNCHANGED <<dpc, lpc, lname, is_last, ppc, srcFile, console,
                           cfgVars, termVars, fmtVars, sent, deq, srcFailed,
                           aggFailed>>
       ELSE /\ instance' = "aborted"
            /\ UNCHANGED <<queueVars, mtx, workerVars, dpc, loggerVars, ppc,
                           fileVars, cfgVars, termVars, fmtVars, histVars>>

\* ~LogManager(): lock_guard block setting the stop flag
DtorSetFlag ==
  /\ dpc = "flag"
  /\ mtx = "free"
  /\ m_ThreadRunning' = FALSE
  /\ pendingAtStop' = {m_LogMsgQueue[k].id : k \in 1..Len(m_LogMsgQueue)}
       \cup (IF wpc \in {"dirs", "module_file"} THEN {msg.id} ELSE {})
  /\ dpc' = "notify"
  /\ UNCHANGED <<instance, m_LogMsgQueue, mtx, workerVars, loggerVars, ppc,
                 fileVars, cfgVars, termVars, fmtVars, sent, deq, srcFailed,
                 aggFailed>>

\* ~LogManager(): m_QueueNotifier.notify_one()
DtorNotify ==
  /\ dpc = "notify"
  /\ wpc' = NotifyOne(wpc)
  /\ dpc' = "join"
  /\ UNCHANGED <<instance, queueVars, mtx, msg, hashed_modules, loggerVars,
                 ppc, fileVars, cfgVars, termVars, fmtVars, histVars>>

\* (mutant) the streams closed without waiting for Process to return
JoinedAtOnce == TRUE

\* ~LogManager(): has m_Thread->join() returned?
Joined == wpc = "done"

\* ~LogManager(): m_Thread->join() returns once Process has returned
DtorJoin ==
  /\ dpc = "join"
  /\ Joined
  /\ dpc' = "close"
  /\ UNCHANGED <<instance, queueVars, mtx, workerVars, loggerVars, ppc,
                 fileVars, cfgVars, termVars, fmtVars, histVars>>

\* ~LogManager(): the three close() calls; the instance is gone afterwards
DtorClose ==
  /\ dpc = "close"
  /\ streamOpen' = [st \in Streams |-> FALSE]
  /\ streamGood' = [st \in Streams |-> FALSE]
  /\ instance' = "none"
  /\ dpc' = "idle"
  /\ wpc' = "none"
  /\ m_Loggers' = {}
  /\ UNCHANGED <<queueVars, mtx, msg, hashed_modules, lpc, lname, is_last,
                 ppc, srcFile, aggFile, console, createdFolders, cfgVars,
                 termVars, fmtVars, histVars>>

\* ------------------------------------------------------------ registrants
\* LogManager::RegisterLogger: emplace under m_LoggersMutex
RegisterLogger(l, name) ==
  /\ lpc[l] = "none"
  /\ instance = "alive"
  /\ dpc = "idle"
  /\ m_Loggers' = m_Loggers \cup {name}
  /\ lpc' = [lpc EXCEPT ![l] = "registered"]
  /\ lname' = [lname EXCEPT ![l] = name]
  /\ UNCHANGED <<instance, queueVars, mtx, workerVars, dpc, is_last, ppc,
                 fileVars, cfgVars, termVars, fmtVars, histVars>>

\* LogManager::UnregisterLogger: the block holding m_LoggersMutex
UnregisterErase(l) ==
  /\ lpc[l] = "registered"
  /\ instance = "alive"
  /\ dpc = "idle"
  /\ m_Loggers' = m_Loggers \ {lname[l]}
  /\ is_last' = [is_last EXCEPT ![l] = (Cardinality(m_Loggers') = 0)]
  /\ lpc' = [lpc EXCEPT ![l] = "unreg_check"]
  /\ UNCHANGED <<instance, queueVars, mtx, workerVars, dpc, lname, ppc,
                 fileVars, cfgVars, termVars, fmtVars, histVars>>

\* LogManager::UnregisterLogger: if (is_last) CSingleton::Destroy(), which
\* deletes the instance when there is one; the Logger and the local is_last
\* are gone afterwards
UnregisterDestroy(l) ==
  /\ lpc[l] = "unreg_check"
  /\ lpc' = [lpc EXCEPT ![l] = "none"]
  /\ lname' = [lname EXCEPT ![l] = ModAB]
  /\ is_last' = [is_last EXCEPT ![l] = FALSE]
  /\ dpc' = IF is_last[l] /\ instance = "alive" /\ dpc = "idle"
            THEN "flag" ELSE dpc
  /\ UNCHANGED <<instance, queueVars, mtx, workerVars, m_Loggers, ppc,
                 fileVars, cfgVars, termVars, fmtVars, histVars>>

\* -------------------------------------------------------------- producers
\* LogManager::QueueLogMessage: the lock_guard block pushing the message.
\* Callers submit only while no shutdown was requested.
QueuePushChain(p, modulename, level, chain) ==
  /\ ppc[p] = "idle"
  /\ instance = "alive"
  /\ m_ThreadRunning
  /\ Len(sent) < MaxEntries
  /\ mtx = "free"
  /\ LET m == [id |-> Len(sent) + 1, log_module |-> modulename,
               loglevel |-> level, text |-> <<"text">>, call_info |-> chain,
               timestamp |-> clock]
     IN /\ m_LogMsgQueue' = QueuePush(m_LogMsgQueue, m)
        /\ sent' = Append(sent, m)
  /\ ppc' = [ppc EXCEPT ![p] = "notify"]
  /\ UNCHANGED <<instance, m_ThreadRunning, mtx, workerVars, dpc, loggerVars,
                 fileVars, cfgVars, termVars, fmtVars, deq, srcFailed,
                 aggFailed, pendingAtStop>>

\* the same, for a message without call info
QueuePushMessage(p, modulename, level) ==
  QueuePushChain(p, modulename, level, <<>>)

\* LogManager::QueueLogMessage: m_QueueNotifier.notify_one()
QueueNotify(p) ==
  /\ ppc[p] = "notify"
  /\ wpc' = NotifyOne(wpc)
  /\ ppc' = [ppc EXCEPT ![p] = "idle"]
  /\ UNCHANGED <<instance, queueVars, mtx, msg, hashed_modules, dpc,
                 loggerVars, fileVars, cfgVars, termVars, fmtVars, histVars>>

\* the system clock advances
Tick ==
  /\ clock < MaxClock
  /\ clock' = clock + 1
  /\ UNCHANGED <<instance, queueVars, mtx, workerVars, dpc, loggerVars, ppc,
                 fileVars, cfgVars, termVars, timestamp, log_string,
                 histVars>>

\* ----------------------------------------------------------------- worker
\* Process: unique_lock lk(m_QueueMtx) and the empty hashed_modules
WorkerLock ==
  /\ wpc = "start"
  /\ mtx = "free"
  /\ mtx' = "worker"
  /\ hashed_modules' = {}
  /\ wpc' = "locked"
  /\ UNCHANGED <<instance, queueVars, msg, dpc, loggerVars, ppc, fileVars,
                 cfgVars, termVars, fmtVars, histVars>>

\* Process: m_QueueNotifier.wait(lk) releases the mutex and blocks; reached
\* from the top of the do loop and from while (m_ThreadRunning)
WorkerWait ==
  /\ \/ wpc = "locked"
     \/ wpc = "check_running" /\ m_ThreadRunning
  /\ mtx' = "free"
  /\ wpc' = "waiting"
  /\ UNCHANGED <<instance, queueVars, msg, hashed_modules, dpc, loggerVars,
                 ppc, fileVars, cfgVars, termVars, fmtVars, histVars>>

\* condition_variable::wait may return without a notification
SpuriousWake ==
  /\ wpc = "waiting"
  /\ wpc' = "woken"
  /\ UNCHANGED <<instance, queueVars, mtx, msg, hashed_modules, dpc,
                 loggerVars, ppc, fileVars, cfgVars, termVars, fmtVars,
                 histVars>>

\* Process: wait(lk) re-acquires the mutex before it returns
WorkerWake ==
  /\ wpc = "woken"
  /\ mtx = "free"
  /\ mtx' = "worker"
  /\ wpc' = "check_queue"
  /\ UNCHANGED <<instance, queueVars, msg, hashed_modules, dpc, loggerVars,
                 ppc, fileVars, cfgVars, termVars, fmtVars, histVars>>

\* (mutant) the mutex kept while the message is processed
LkKeepLocked == "worker"

\* Process: the owner of m_QueueMtx after lk.unlock()
LkUnlock == "free"

\* Process: while (!m_LogMsgQueue.empty()) taken: front, pop, lk.unlock()
WorkerPop ==
  /\ wpc = "check_queue"
  /\ m_LogMsgQueue # <<>>
  /\ msg' = QueueFront(m_LogMsgQueue)
  /\ m_LogMsgQueue' = QueuePop(m_LogMsgQueue)
  /\ deq' = Append(deq, msg'.id)
  /\ mtx' = LkUnlock
  /\ wpc' = "dirs"
  /\ UNCHANGED <<instance, m_ThreadRunning, hashed_modules, dpc, loggerVars,
                 ppc, fileVars, cfgVars, termVars, fmtVars, sent, srcFailed,
                 aggFailed, pendingAtStop>>

\* (mutant) the drain loop also left once a stop was requested
WorkerQueueEmptyOrStopped ==
  /\ wpc = "check_queue"
  /\ m_LogMsgQueue = <<>> \/ ~m_ThreadRunning
  /\ wpc' = "check_running"
  /\ UNCHANGED <<instance, queueVars, mtx, msg, hashed_modules, dpc,
                 loggerVars, ppc, fileVars, cfgVars, termVars, fmtVars,
                 histVars>>

\* Process: while (!m_LogMsgQueue.empty()) left
WorkerQueueEmpty ==
  /\ wpc = "check_queue"
  /\ m_LogMsgQueue = <<>>
  /\ wpc' = "check_running"
  /\ UNCHANGED <<instance, queueVars, mtx, msg, hashed_modules, dpc,
                 loggerVars, ppc, fileVars, cfgVars, termVars, fmtVars,
                 histVars>>

\* Process: while (m_ThreadRunning) left; lk's destructor unlocks and the
\* local hashed_modules is gone
WorkerExit ==
  /\ wpc = "check_running"
  /\ ~m_ThreadRunning
  /\ mtx' = "free"
  /\ hashed_modules' = {}
  /\ wpc' = "done"
  /\ UNCHANGED <<instance, queueVars, msg, dpc, loggerVars, ppc, fileVars,
                 cfgVars, termVars, fmtVars, histVars>>

\* Process: folders of a module not in hashed_modules, then the time of the
\* message formatted and the log string built
WorkerFolders ==
  /\ wpc = "dirs"
  /\ IF msg.log_module \notin hashed_modules
     THEN /\ createdFolders' = createdFolders \o
               [k \in 1..Len(FolderLoop(msg.log_module, 0, <<>>)) |->
                  CreateFolder(msg.id, FolderLoop(msg.log_module, 0, <<>>)[k])]
          /\ hashed_modules' = HashedInsert(hashed_modules, msg.log_module)
     ELSE UNCHANGED <<createdFolders, hashed_modules>>
  /\ timestamp' = FormatTime(DateTimeFormat, msg.timestamp)
  /\ log_string' = WriteCallInfoString(msg, msg.text)
  /\ wpc' = "module_file"
  /\ UNCHANGED <<instance, queueVars, mtx, msg, dpc, loggerVars, ppc, srcFile,
                 aggFile, console, streamOpen, streamGood, cfgVars, termVars,
                 clock, histVars>>

\* (mutant) the rest of the iteration skipped after a failed write
AfterModuleFileSkip(ok) == IF ok THEN "level_file" ELSE "relock"

\* where Process goes on after the per-module write, failed or not
AfterModuleFile(ok) == "level_file"

\* Process: "default logging": open logs/<module>.log with app, write a line
WorkerModuleFile(ok) ==
  /\ wpc = "module_file"
  /\ IF ok
     THEN /\ srcFile' = [srcFile EXCEPT ![msg.log_module] =
                           Append(@, ModuleLine(msg))]
          /\ UNCHANGED srcFailed
     ELSE /\ srcFailed' = srcFailed \cup {msg.id}
          /\ UNCHANGED srcFile
  /\ wpc' = AfterModuleFile(ok)
  /\ UNCHANGED <<instance, queueVars, mtx, msg, hashed_modules, dpc,
                 loggerVars, ppc, aggFile, console, createdFolders,
                 streamOpen, streamGood, cfgVars, termVars, fmtVars, sent,
                 deq, aggFailed, pendingAtStop>>

\* Process: "per-log-level logging" on the long-lived stream; a failed write
\* leaves the stream in a failed state
WorkerLevelFile(ok) ==
  /\ wpc = "level_file"
  /\ LET loglevel_file == LogLevelFile(msg.loglevel)
     IN IF loglevel_file = NoFile
        THEN UNCHANGED <<aggFile, streamGood, aggFailed>>
        ELSE   IF streamGood[loglevel_file] /\ ok
               THEN /\ aggFile' = [aggFile EXCEPT ![StreamPath(loglevel_file)] =
                                     Append(@, LevelLine(msg))]
                    /\ UNCHANGED <<streamGood, aggFailed>>
               ELSE /\ streamGood' =
                         [streamGood EXCEPT ![loglevel_file] = FALSE]
                    /\ aggFailed' = aggFailed \cup {msg.id}
                    /\ UNCHANGED aggFile
  /\ wpc' = "console"
  /\ UNCHANGED <<instance, queueVars, mtx, msg, hashed_modules, dpc,
                 loggerVars, ppc, srcFile, console, createdFolders,
                 streamOpen, cfgVars, termVars, fmtVars, sent, deq, srcFailed,
                 pendingAtStop>>

\* Process: the console block
WorkerConsole(negotiated) ==
  /\ wpc = "console"
  /\ LET log_config == GetLoggerConfig(msg.log_module)
         level_config == GetLogLevelConfig(msg.loglevel)
     IN IF PrintsToConsole(log_config, level_config)
        THEN IF EnableColors
             THEN /\ enabled' =
                       EnsureTerminalColorSupport(enabled, win32, negotiated)
                  /\ negotiations' = IF Negotiates(enabled, win32)
                                     THEN negotiations + 1
                                     ELSE negotiations
                  /\ console' = Append(console, ColoredLine(msg))
             ELSE /\ console' = Append(console, ConsoleLine(msg))
                  /\ UNCHANGED termVars
        ELSE UNCHANGED <<console, termVars>>
  /\ wpc' = "relock"
  /\ UNCHANGED <<instance, queueVars, mtx, msg, hashed_modules, dpc,
                 loggerVars, ppc, srcFile, aggFile, createdFolders,
                 streamOpen, streamGood, cfgVars, fmtVars, histVars>>

\* Process: lk.lock() at the end of the iteration; msg is released
WorkerRelock ==
  /\ wpc = "relock"
  /\ mtx = "free"
  /\ mtx' = "worker"
  /\ msg' = NoMsg
  /\ timestamp' = NoString
  /\ log_string' = NoString
  /\ wpc' = "check_queue"
  /\ UNCHANGED <<instance, queueVars, hashed_modules, dpc, loggerVars, ppc,
                 fileVars, cfgVars, termVars, clock, histVars>>

\* ------------------------------------------------------------------ Next
\* the outcomes of opening the three aggregate streams
AllOpen == [st \in Streams |-> TRUE]
NoneOpen == [st \in Streams |-> FALSE]

\* the outcomes of the console mode negotiation, when the next coloured line
\* makes one
NegotiationOutcomes ==
  IF EnableColors /\ Negotiates(enabled, win32) THEN BOOLEAN ELSE {TRUE}

\* Process while no stop is requested, with the outcomes of the per-module
\* writes and of the aggregate writes drawn from the given sets
WorkerLoop(moduleOks, levelOks) ==
  \/ WorkerLock \/ WorkerWait \/ WorkerWake \/ WorkerPop \/ WorkerQueueEmpty
  \/ WorkerFolders
  \/ \E ok \in moduleOks : WorkerModuleFile(ok)
  \/ \E ok \in levelOks : WorkerLevelFile(ok)
  \/ \E negotiated \in NegotiationOutcomes : WorkerConsole(negotiated)
  \/ WorkerRelock

\* Process
Worker(moduleOks, levelOks) ==
  \/ WorkerLoop(moduleOks, levelOks)
  \/ WorkerExit

Destructor == DtorSetFlag \/ DtorNotify \/ DtorJoin \/ DtorClose

Lifecycle(opens) ==
  \/ \E opened \in opens : Construct(opened)
  \/ Destructor

Registry(loggers, modules) ==
  \/ \E l \in loggers, name \in modules : RegisterLogger(l, name)
  \/ \E l \in loggers : UnregisterErase(l)
  \/ \E l \in loggers : UnregisterDestroy(l)

Producer(producers, modules, levels) ==
  \/ \E p \in producers, m \in modules, lv \in levels :
       QueuePushMessage(p, m, lv)
  \/ \E p \in producers : QueueNotify(p)

\* QueueLogMessage for messages with call info
Submit(producers, modules, levels, chains) ==
  \/ \E p \in producers, m \in modules, lv \in levels, chain \in chains :
       QueuePushChain(p, m, lv, chain)
  \/ \E p \in producers : QueueNotify(p)

\* the pipeline: concurrent producers of warnings of both modules and of
\* informational messages of one, the worker, per-module write failures, and
\* one logger whose unregistration destroys the instance, which is created
\* again on demand
Init == InitOf({AllOpen}, {{}}, {{}})

Next ==
  \/ Lifecycle({AllOpen})
  \/ Registry({1}, {ModAB})
  \/ \E p \in Producers, m \in Modules :
       QueuePushMessage(p, m, "LogLevel::WARNING")
  \/ \E p \in Producers : QueuePushMessage(p, ModAB, "LogLevel::INFO")
  \/ \E p \in Producers : QueueNotify(p)
  \/ Worker(BOOLEAN, {TRUE})
  \/ SpuriousWake

Spec == Init /\ [][Next]_vars

\* the registry: concurrent loggers, possibly of the same module name, and
\* aggregate streams that may fail to open
RegistryNext ==
  \/ Lifecycle({AllOpen, NoneOpen})
  \/ Registry(Loggers, Modules)
  \/ Producer({1}, {ModAB}, {"LogLevel::INFO"})
  \/ Worker({TRUE}, {TRUE})
  \/ SpuriousWake

RegistrySpec == Init /\ [][RegistryNext]_vars

\* the routing while no stop is requested: every module, level and console
\* configuration, with failing writes to either file (a stream that failed
\* to open behaves as one whose first write failed)
RouteInit == InitOf({AllOpen}, LoggerCfgChoices, LevelCfgChoices)

RouteNext ==
  \/ Producer({1}, Modules, LogLevels)
  \/ WorkerLoop(BOOLEAN, BOOLEAN)
  \/ SpuriousWake

RouteSpec == RouteInit /\ [][RouteNext]_vars

\* the console: coloured or plain output on either build, with a console
\* mode negotiation that may fail
TermInit == InitWith({AllOpen}, {Modules}, {{}}, BOOLEAN, BOOLEAN)

TermNext ==
  \/ Producer({1}, {ModAB}, {"LogLevel::INFO", "LogLevel::FATAL"})
  \/ WorkerLoop({TRUE}, {TRUE})
  \/ SpuriousWake

TermSpec == TermInit /\ [][TermNext]_vars

\* the folders: messages of both modules processed by successive workers,
\* each with its own hashed_modules
FolderNext ==
  \/ Lifecycle({AllOpen})
  \/ Registry({1}, {ModAB})
  \/ Producer({1}, Modules, {"LogLevel::INFO"})
  \/ Worker({TRUE}, {TRUE})
  \/ SpuriousWake

FolderSpec == Init /\ [][FolderNext]_vars

\* the formatting: messages with and without call info, submitted and
\* written at different times, printed plain or coloured
FormatInit == InitWith({AllOpen}, {{ModAB}}, {{}}, BOOLEAN, {FALSE})

FormatNext ==
  \/ Submit({1}, {ModAB}, {"LogLevel::WARNING"}, CallChains)
  \/ Tick
  \/ WorkerLoop({TRUE}, {TRUE})
  \/ SpuriousWake

FormatSpec == FormatInit /\ [][FormatNext]_vars

\* scheduling: a thread that can take a step eventually takes it; nothing
\* obliges wait() to return spuriously, nor the callers to call again
FairNext ==
  \/ Lifecycle({AllOpen})
  \/ Registry({1}, {ModAB})
  \/ Producer(Producers, {ModAB}, {"LogLevel::INFO"})
  \/ Worker({TRUE}, {TRUE})
  \/ SpuriousWake

FairSpec ==
  /\ Init
  /\ [][FairNext]_vars
  /\ WF_vars(Worker({TRUE}, {TRUE}))
  /\ WF_vars(Destructor)
  /\ WF_vars(\E p \in Producers : QueueNotify(p))
  /\ WF_vars(UnregisterDestroy(1))

\* the startup: the process before the first CSingleton::Get(), with each
\* logtimeformat the server configuration may hold
StartupInit ==
  /\ instance = "none"
  /\ m_ThreadRunning = TRUE
  /\ m_LogMsgQueue = <<>>
  /\ mtx = "free"
  /\ m_Loggers = {}
  /\ streamGood = NoneOpen
  /\ streamOpen = NoneOpen
  /\ wpc = "none"
  /\ msg = NoMsg
  /\ hashed_modules = {}
  /\ timestamp = NoString
  /\ log_string = NoString
  /\ clock = 0
  /\ dpc = "idle"
  /\ lpc = [l \in Loggers |-> "none"]
  /\ lname = [l \in Loggers |-> ModAB]
  /\ is_last = [l \in Loggers |-> FALSE]
  /\ ppc = [p \in Producers |-> "idle"]
  /\ srcFile = [m \in Modules |-> <<>>]
  /\ aggFile = [f \in AggFiles |-> <<>>]
  /\ console = <<>>
  /\ createdFolders = <<>>
  /\ loggerCfg = {ModAB}
  /\ levelCfg = {}
  /\ logtimeformat \in TimeFormats
  /\ EnableColors = FALSE
  /\ win32 = FALSE
  /\ enabled = FALSE
  /\ negotiations = 0
  /\ sent = <<>>
  /\ deq = <<>>
  /\ srcFailed = {}
  /\ aggFailed = {}
  /\ pendingAtStop = {}

StartupNext ==
  \/ Lifecycle({AllOpen})
  \/ Registry({1}, {ModAB})
  \/ Producer({1}, {ModAB}, {"LogLevel::WARNING"})
  \/ Worker({TRUE}, {TRUE})
  \/ SpuriousWake

StartupSpec == StartupInit /\ [][StartupNext]_vars

\* --------------------------------------------------------- state functions
SentIds == 1..Len(sent)
QueueIds == {m_LogMsgQueue[k].id : k \in 1..Len(m_LogMsgQueue)}
DeqIds == {deq[k] : k \in 1..Len(deq)}
Count(lines, i) == Cardinality({k \in 1..Len(lines) : lines[k].id = i})
Increasing(lines) ==
  \A j, k \in 1..Len(lines) : j < k => lines[j].id < lines[k].id

\* the worker holds message i and has not yet done its per-module write
Held(i) == msg.id = i /\ wpc \in {"dirs", "module_file"}
\* the per-module write of message i was done: its line is in a per-module
\* file, or the write failed and the line was dropped
Written(i) == i \in srcFailed \/ \E m \in Modules : i \in IdsOf(srcFile[m])
InQueue(i) == i \in QueueIds

\* the worker has popped message i and is past its aggregate / console block
PastLevelFile(i) ==
  i \in DeqIds /\ ~(msg.id = i /\ wpc \in {"dirs", "module_file", "level_file"})
PastConsole(i) ==
  i \in DeqIds
  /\ ~(msg.id = i /\ wpc \in {"dirs", "module_file", "level_file", "console"})

IsPrefix(a, b) == Len(a) <= Len(b) /\ SubSeq(b, 1, Len(a)) = a

\* the CreateFolder calls of the current instance made for message i
CallsBy(i) == {k \in 1..Len(createdFolders) : createdFolders[k].by = i}

\* the documented text of a frame, of a call chain and of a message
FrameText(frame) == <<frame.file, ":">> \o FormatInt(frame.line)

RECURSIVE JoinFrames(_)
JoinFrames(chain) ==
  IF Len(chain) = 1 THEN FrameText(chain[1])
  ELSE FrameText(chain[1]) \o <<" -> ">> \o JoinFrames(Tail(chain))

ExpectedBody(m) ==
  IF m.call_info = <<>> THEN m.text
  ELSE m.text \o <<" (">> \o JoinFrames(m.call_info) \o <<")">>

\* every line for message i in the given file or console has the given
\* text and time
LinesShow(lines, i, body, stamp) ==
  \A k \in 1..Len(lines) :
    lines[k].id = i => (lines[k].text = body /\ lines[k].timestamp = stamp)

\* the worker thread exists and Process has not returned
WorkerRunning == wpc \notin {"none", "done"}

LiveRegistrants == {l \in Loggers : lpc[l] = "registered"}

\* the aggregate file the documentation gives each severity
AggregateOf(level) ==
  CASE level = "LogLevel::WARNING" -> "logs/warnings.log"
    [] level = "LogLevel::ERROR" -> "logs/errors.log"
    [] level = "LogLevel::FATAL" -> "logs/fatals.log"
    [] OTHER -> "none"

ConsoleWanted(i) ==
  sent[i].log_module \in loggerCfg \/ sent[i].loglevel \in levelCfg

\* ------------------------------------------------------------------ claims
\* C1: the worker pops the messages in the order of their pushes (message i
\* is the i-th push under m_QueueMtx), and in every per-module file and every
\* aggregate file the lines appear in push order.
C1_GlobalFifo ==
  /\ \A k \in 1..Len(deq) : deq[k] = k
  /\ \A m \in Modules : Increasing(srcFile[m])
  /\ \A f \in AggFiles : Increasing(aggFile[f])

\* two messages of different modules both reached warnings.log
C1_Witness ==
  /\ Len(aggFile["logs/warnings.log"]) = 2
  /\ aggFile["logs/warnings.log"][1].module #
       aggFile["logs/warnings.log"][2].module
  /\ deq = <<1, 2>>


\* C2: Process returns only with the queue empty and the stop flag set; once
\* join() has returned, the queue is empty and every pushed message has had
\* its per-module write done, its line being in logs/<module>.log unless that
\* write failed.
C2_DrainBeforeExit ==
  /\ wpc = "done" => m_LogMsgQueue = <<>> /\ ~m_ThreadRunning
  /\ (dpc = "close" \/ instance = "none") =>
       /\ m_LogMsgQueue = <<>>
       /\ \A i \in SentIds :
            /\ Written(i)
            /\ i \in srcFailed \/ Count(srcFile[sent[i].log_module], i) = 1

\* join() has returned although two messages were still unwritten when the
\* stop flag was set
C2_Witness ==
  /\ dpc = "close"
  /\ Cardinality(pendingAtStop) = 2
  /\ srcFailed = {}

\* C5: every pushed message is in exactly one place: in the queue, held by
\* the worker before its per-module write, or written; the queue holds it at
\* most once, the worker pops it at most once, and the per-module files hold
\* exactly one line for it once it is written without failure, none otherwise.
C5_ExactlyOnce ==
  \A i \in SentIds :
    /\ Cardinality({place \in {"queue", "worker", "written"} :
                      \/ place = "queue" /\ InQueue(i)
                      \/ place = "worker" /\ Held(i)
                      \/ place = "written" /\ Written(i)}) = 1
    /\ Count(m_LogMsgQueue, i) <= 1
    /\ Cardinality({k \in 1..Len(deq) : deq[k] = i}) <= 1
    /\ \A m \in Modules :
         Count(srcFile[m], i) =
           IF Written(i) /\ i \notin srcFailed /\ m = sent[i].log_module
           THEN 1 ELSE 0

\* both producers have pushed and not yet notified: one message is held by
\* the worker, the other is in the queue
C5_Witness ==
  /\ \A p \in Producers : ppc[p] = "notify"
  /\ Held(1)
  /\ InQueue(2)


C4_TeardownTerminates == (dpc = "join") ~> (dpc = "close")

\* C6: once the worker is past the aggregate block of a message, the
\* per-module file of its module holds exactly one line for it (none if that
\* write failed) and no other per-module file holds one; the aggregate file
\* of its severity holds exactly one line for it iff the severity is WARNING,
\* ERROR or FATAL (none if that write failed), and no other aggregate file
\* ever holds a line for it; DEBUG, INFO and VERBOSE never touch a stream.
C6_SeverityFanOut ==
  \A i \in SentIds :
    /\ PastLevelFile(i) =>
         \A m \in Modules :
           Count(srcFile[m], i) =
             IF m = sent[i].log_module /\ i \notin srcFailed THEN 1 ELSE 0
    /\ \A f \in AggFiles :
         Count(aggFile[f], i) =
           IF PastLevelFile(i) /\ f = AggregateOf(sent[i].loglevel)
              /\ i \notin aggFailed
           THEN 1 ELSE 0
    /\ i \in aggFailed => AggregateOf(sent[i].loglevel) \in AggFiles

\* a WARNING message with a line in its module file and in warnings.log,
\* then a DEBUG message with a line in its module file only
C6_Witness ==
  /\ Len(sent) = 2
  /\ sent[1].loglevel = "LogLevel::WARNING"
  /\ sent[2].loglevel = "LogLevel::DEBUG"
  /\ PastLevelFile(2)
  /\ Count(aggFile["logs/warnings.log"], 1) = 1
  /\ Count(srcFile[sent[1].log_module], 1) = 1
  /\ Count(srcFile[sent[2].log_module], 2) = 1

\* C7: UnregisterLogger decides to destroy the instance exactly when no
\* registrant is left registered, counted with multiplicity.
C7_TeardownOnLastRegistrant ==
  [][\A l \in Loggers :
       (lpc[l] = "registered" /\ lpc'[l] = "unreg_check") =>
         (is_last'[l] <=> Cardinality(LiveRegistrants') = 0)]_vars

\* C8: every step leaves each per-module file and each aggregate file a
\* prefix of its new content.
C8_AppendOnly ==
  [][/\ \A m \in Modules : IsPrefix(srcFile[m], srcFile'[m])
     /\ \A f \in AggFiles : IsPrefix(aggFile[f], aggFile'[f])]_vars

\* C9: a failed write to one destination of a message does not suppress its
\* other destinations: after a failed per-module write the aggregate line is
\* still written, after a failed aggregate write the per-module line stays
\* written, and the console line is printed whenever it is configured; no
\* message is popped twice and no file gets a second line for it, and the
\* messages after a failed one are routed the same way.
C9_DestinationIndependence ==
  \A i \in SentIds :
    /\ ( /\ PastLevelFile(i)
         /\ i \in srcFailed
         /\ i \notin aggFailed
         /\ AggregateOf(sent[i].loglevel) \in AggFiles )
       => Count(aggFile[AggregateOf(sent[i].loglevel)], i) = 1
    /\ (PastLevelFile(i) /\ i \in aggFailed /\ i \notin srcFailed)
       => Count(srcFile[sent[i].log_module], i) = 1
    /\ (PastConsole(i) /\ i \in srcFailed \cup aggFailed /\ ConsoleWanted(i))
       => Count(console, i) = 1
    /\ Cardinality({k \in 1..Len(deq) : deq[k] = i}) <= 1
    /\ \A m \in Modules : Count(srcFile[m], i) <= 1
    /\ \A f \in AggFiles : Count(aggFile[f], i) <= 1
    /\ i \in srcFailed => \A m \in Modules : Count(srcFile[m], i) = 0

\* the per-module write of the first message failed, its aggregate and
\* console lines were written all the same, and the next message was written
C9_Witness ==
  /\ Len(sent) = 2
  /\ srcFailed = {1}
  /\ aggFailed = {}
  /\ Count(aggFile["logs/errors.log"], 1) = 1
  /\ Count(console, 1) = 1
  /\ Count(srcFile[sent[2].log_module], 2) = 1

\* C10: once the worker is past the console block of a message, the console
\* holds exactly one line for it if the configuration of its module or the
\* configuration of its level has PrintToConsole, and none otherwise,
\* whatever happened to its file writes.
C10_ConsoleGating ==
  \A i \in SentIds :
    Count(console, i) = IF PastConsole(i) /\ ConsoleWanted(i) THEN 1 ELSE 0

\* printed because of the module configuration alone, with both file writes
\* failed; and a message of neither configuration not printed
C10_Witness ==
  /\ Len(sent) = 2
  /\ PastConsole(2)
  /\ sent[1].log_module \in loggerCfg
  /\ sent[1].loglevel \notin levelCfg
  /\ 1 \in srcFailed \cap aggFailed
  /\ Count(console, 1) = 1
  /\ ~ConsoleWanted(2)

\* the positions of Process between lk.unlock() and lk.lock()
IOSteps == {"dirs", "module_file", "level_file", "console", "relock"}

\* C11: the worker owns m_QueueMtx exactly while it is between lock and wait,
\* tests the queue or tests the stop flag; whenever it creates folders,
\* writes the per-module file, the aggregate file or the console, the mutex
\* is free, and a producer that may submit can take it and push at once.
C11_UnlockDuringIO ==
  /\ mtx = "worker" <=> wpc \in {"locked", "check_queue", "check_running"}
  /\ wpc \in IOSteps => mtx = "free"
  /\ ( /\ wpc \in IOSteps
       /\ instance = "alive"
       /\ m_ThreadRunning
       /\ Len(sent) < MaxEntries )
     => \A p \in Producers :
          ppc[p] = "idle" =>
            ENABLED QueuePushMessage(p, ModAB, "LogLevel::INFO")

\* the worker is writing the per-module file of the first message, the
\* queue is empty and the mutex free: a producer can push at once
C11_Witness ==
  /\ wpc = "module_file"
  /\ msg.id = 1
  /\ m_LogMsgQueue = <<>>
  /\ ENABLED QueuePushMessage(1, ModAB, "LogLevel::INFO")

\* the patterns the dry run of LogManager() is there to reject
InvalidFormats == {"malformed", "unknown_conversion"}

\* C12: with an invalid logtimeformat no LogManager ever starts: the logs
\* folder is not created, no aggregate stream is opened, no worker thread
\* runs, and no message is accepted or written.
C12_FailFastStartup ==
  logtimeformat \in InvalidFormats =>
    /\ instance # "alive"
    /\ createdFolders = <<>>
    /\ \A st \in Streams : ~streamOpen[st]
    /\ wpc = "none"
    /\ sent = <<>>
    /\ \A m \in Modules : srcFile[m] = <<>>
    /\ \A f \in AggFiles : aggFile[f] = <<>>
    /\ console = <<>>

\* C13: the worker never goes to sleep with a message already queued or with
\* the stop already requested: every step that takes it into
\* m_QueueNotifier.wait is taken with the queue empty and m_ThreadRunning
\* true.
C13_SuspensionInvariant ==
  [][(wpc # "waiting" /\ wpc' = "waiting") =>
       (m_LogMsgQueue = <<>> /\ m_ThreadRunning)]_vars

C15_SameSourceMemoization ==
  \A i, j \in SentIds :
    (i < j /\ sent[i].log_module = sent[j].log_module) =>
      /\ CallsBy(i) # {} => CallsBy(j) = {}
      /\ CallsBy(i) # {} =>
           Cardinality(CallsBy(i)) =
             Len(FolderLoop(sent[i].log_module, 0, <<>>))
      /\ \A m \in Modules :
           (Count(srcFile[m], i) > 0 \/ Count(srcFile[m], j) > 0)
             => m = sent[i].log_module

\* two messages of module a/b processed by the same worker: both lines are
\* in logs/a/b.log, the folder was created for the first one only
C15_Witness ==
  /\ Len(sent) = 2
  /\ sent[1].log_module = ModAB /\ sent[2].log_module = ModAB
  /\ IdsOf(srcFile[ModAB]) = {1, 2}
  /\ CallsBy(1) # {}
  /\ CallsBy(2) = {}

\* C16: CreateFolder is called at most once for each distinct folder path
\* under logs/, whatever the sequence of messages, also for different
\* modules that share a folder.
C16_PerPrefixCreation ==
  \A j, k \in 1..Len(createdFolders) :
    j # k => createdFolders[j].foldername # createdFolders[k].foldername

\* C17: over any sequence of coloured console lines the console mode is
\* negotiated at most once, whether the negotiation succeeds or fails; and
\* every message whose console line is wanted has it printed, failed
\* negotiation or not.
C17_OnceOnlyNegotiation ==
  /\ negotiations <= 1
  /\ \A i \in SentIds :
       (PastConsole(i) /\ ConsoleWanted(i)) => Count(console, i) = 1

\* C18: every line written for a message, in its per-module file, in an
\* aggregate file and on the console, carries the same body, the text
\* followed, iff the call chain is not empty, by " (" then the frames
\* file:line in the given order joined by " -> " then ")", and the same
\* time string, formatted from the time of the submission and not from the
\* time of the write.
C18_FormatOnce ==
  \A i \in SentIds :
    LET body == ExpectedBody(sent[i])
        stamp == FormatTime(DateTimeFormat, sent[i].timestamp)
    IN /\ \A m \in Modules : LinesShow(srcFile[m], i, body, stamp)
       /\ \A f \in AggFiles : LinesShow(aggFile[f], i, body, stamp)
       /\ LinesShow(console, i, body, stamp)

\* a message with a chain of two frames, submitted before the clock
\* advanced, has its lines in logs/a/b.log and in warnings.log and is about
\* to be printed; the message before it reached the console
C18_Witness ==
  /\ wpc = "console"
  /\ msg.id = 2
  /\ sent[2].call_info = <<FrameA, FrameB>>
  /\ sent[2].timestamp < clock
  /\ Count(srcFile[ModAB], 2) = 1
  /\ Count(aggFile["logs/warnings.log"], 2) = 1
  /\ Count(console, 1) = 1

\* the loggers known to the LogManager have pairwise distinct module names
DistinctNames ==
  \A l1, l2 \in Loggers :
    (l1 # l2 /\ lpc[l1] # "none" /\ lpc[l2] # "none") => lname[l1] # lname[l2]

\* C19: with pairwise distinct module names, UnregisterLogger never calls
\* CSingleton::Destroy while a logger is registered in m_Loggers, however a
\* RegisterLogger of another thread interleaves with it.
C19_NoTeardownUnderLiveRegistrant ==
  [][\A l \in Loggers :
       ( /\ DistinctNames
         /\ lpc[l] = "unreg_check" /\ lpc'[l] = "none"
         /\ is_last[l] )
       => m_Loggers = {}]_vars

\* C20: on one LogManager instance CSingleton::Destroy is called at most
\* once, and only by an UnregisterLogger that removed a registered logger:
\* a call decides is_last only if its erase removed an entry of m_Loggers,
\* and a call with is_last set finds the instance alive with no teardown
\* begun.
C20_TeardownAtMostOnce ==
  [][\A l \in Loggers :
       /\ (lpc[l] = "registered" /\ lpc'[l] = "unreg_check" /\ is_last'[l])
            => lname[l] \in m_Loggers
       /\ (lpc[l] = "unreg_check" /\ lpc'[l] = "none" /\ is_last[l])
            => (instance = "alive" /\ dpc = "idle")]_vars

====
